---- MODULE Spec2Model ----
(***************************************************************************)
(* The one-shot rewriting scripts of ceedaragents/cyrus:                   *)
(*   src/fix_method_signatures.py   (signature rewriter,     SpecSig)      *)
(*   src/fix_last_three.py          (literal-block rewriter, SpecLit)      *)
(*   src/fix_create_activity.py     (pattern rewriter,       SpecPat)      *)
(*   src/packages/edge-worker/src/fix_all_create_activity.py               *)
(*                                  (line-scanning rewriter, SpecScan)     *)
(*                                                                         *)
(* A text is a sequence of tokens.  A token is a run of characters that    *)
(* every regular expression of the scripts treats as a unit: either one    *)
(* structural character ("}", ",", a blank, ...) or a word none of whose   *)
(* characters is tested separately by a character class.  A Python         *)
(* regular expression is a sequence of items (a literal token string or a  *)
(* greedy repetition of a character class), matched with backtracking in   *)
(* Python's priority order.                                                *)
(***************************************************************************)
EXTENDS Integers, Sequences, FiniteSets, TLC

VARIABLES
    file,      \* the content of EdgeWorker.ts on disk
    content,   \* the script's variable `content` (`lines` in the scanner)
    pc,        \* the statement the running script is at
    run,       \* how many times the script has been started
    input,     \* the file content the current run read (history)
    out,       \* what the script has printed, oldest first
    loc        \* a script's other variables

vars == <<file, content, pc, run, input, out, loc>>

\* How many times in a row the operator runs one script on the file.
MaxRuns == 2

NoLoc == [i |-> 0]

--------------------------------------------------------------------------
(* Sequences *)

RECURSIVE Flatten(_)
Flatten(ss) == IF ss = <<>> THEN <<>> ELSE Head(ss) \o Flatten(Tail(ss))

SetMin(S) == CHOOSE x \in S : \A y \in S : x <= y
SetMax(S) == CHOOSE x \in S : \A y \in S : x >= y

\* Sequences over S of length 0..n.
SeqsUpTo(S, n) == UNION {[1..k -> S] : k \in 0..n}

\* Does the token string w occur in t at position p?
OccursAt(w, t, p) ==
    /\ p >= 1
    /\ p + Len(w) - 1 <= Len(t)
    /\ SubSeq(t, p, p + Len(w) - 1) = w

--------------------------------------------------------------------------
(* Character classes over tokens *)

Blanks == {" ", "\n", "\t"}

\* Tokens that contain the character a negated class excludes.
HasRBrace == {"}"}
HasComma  == {","}
HasQuote  == {"\""}
HasRParen == {")", ".success) "}
StartsWithI == {"Id", "I"}
HasLBrace == {"{"}
\* Tokens that contain a blank.
HasBlank  == Blanks \cup
    {"const ", " = ", "type: ", "body: ", "agentSessionId: ", "content: ",
     " else ", "if (", ".success) ", "Hi ", "Failed: ", "// ", " replaces ",
     "await linearClient.createAgentActivity("}

InClass(c, tok) ==
    CASE c = "\\s"   -> tok \in Blanks
      [] c = "\\t"   -> tok = "\t"
      [] c = "[^}]"  -> tok \notin HasRBrace
      [] c = "[^,]"  -> tok \notin HasComma
      [] c = "[^\"]" -> tok \notin HasQuote
      [] c = "[^)]"  -> tok \notin HasRParen
      [] c = "[^I]"  -> tok \notin StartsWithI
      [] c = "[^{]"  -> tok \notin HasLBrace
      [] c = "[^,\\s]" -> tok \notin HasComma \cup HasBlank

\* The number of consecutive tokens of class c in t from position p.
ClassRun(c, t, p) ==
    LET stops == {q \in p..Len(t) : ~InClass(c, t[q])}
    IN  IF stops = {} THEN Len(t) - p + 1 ELSE SetMin(stops) - p

--------------------------------------------------------------------------
(* Regular expressions: re.sub *)

\* Items.  g is the capture group the item lies in (0: none).
Lit(w)        == [k |-> "lit", s |-> w, c |-> "", min |-> 0, g |-> 0]
LitG(w, grp)  == [k |-> "lit", s |-> w, c |-> "", min |-> 0, g |-> grp]
Star(cls)     == [k |-> "rep", s |-> <<>>, c |-> cls, min |-> 0, g |-> 0]
Plus(cls)     == [k |-> "rep", s |-> <<>>, c |-> cls, min |-> 1, g |-> 0]
PlusG(cls, grp) == [k |-> "rep", s |-> <<>>, c |-> cls, min |-> 1, g |-> grp]
OneG(cls, grp)  == [k |-> "one", s |-> <<>>, c |-> cls, min |-> 1, g |-> grp]

\* The positions from which the item it can match and leave the text at a
\* position of nxt.
OkItem(it, t, nxt) ==
    CASE it.k = "lit" ->
           {p \in 1..Len(t) : OccursAt(it.s, t, p) /\ p + Len(it.s) \in nxt}
      [] it.k = "one" ->
           {p \in 1..Len(t) : InClass(it.c, t[p]) /\ p + 1 \in nxt}
      [] it.k = "rep" ->
           LET stops == {j \in 1..Len(t) : ~InClass(it.c, t[j])}
               Lo(q) == SetMax({j \in stops : j < q} \cup {0})
           IN  UNION {(Lo(q) + 1)..(q - it.min) : q \in nxt}

\* ok[k], for k in 1..Len(pat)+1: the positions from which the items k..
\* of pat can match.  acc is ok for the items after k (comparing it with
\* <<>> has TLC compute it before the next step, not after the last).
RECURSIVE OkTable(_, _, _, _)
OkTable(pat, t, k, acc) ==
    IF k = 0 \/ acc = <<>> THEN acc
    ELSE OkTable(pat, t, k - 1, <<OkItem(pat[k], t, Head(acc))>> \o acc)

\* Where item it ends when matched at p, the rest of the pattern having to
\* match from there: Python tries a repetition's longest run first and
\* gives back one character at a time until the rest matches.
ItemEnd(it, t, p, nxt) ==
    CASE it.k = "lit" -> p + Len(it.s)
      [] it.k = "one" -> p + 1
      [] it.k = "rep" ->
           SetMax({q \in nxt : p + it.min <= q /\ q <= p + ClassRun(it.c, t, p)})

\* The position after each of the items k.. in the match of pat at a
\* position of ok[1]; p is where item k starts (never 0: the test has TLC
\* compute p at each step), acc the ends so far.
RECURSIVE MatchItems(_, _, _, _, _, _)
MatchItems(pat, t, ok, k, p, acc) ==
    IF k > Len(pat) \/ p = 0 THEN acc
    ELSE LET e == ItemEnd(pat[k], t, p, ok[k + 1])
         IN  MatchItems(pat, t, ok, k + 1, e, Append(acc, e))

\* The text group g of match m = [s |-> start, ends |-> item ends] captured.
ItemsOf(pat, g) == {k \in 1..Len(pat) : pat[k].g = g}
Group(pat, m, g, t) ==
    LET K  == ItemsOf(pat, g)
        a  == IF SetMin(K) = 1 THEN m.s ELSE m.ends[SetMin(K) - 1]
        b  == m.ends[SetMax(K)]
    IN  SubSeq(t, a, b - 1)

MatchEnd(m) == m.ends[Len(m.ends)]

\* The non-overlapping matches of pat in t from position p, leftmost first,
\* as re.sub finds them (no pattern of the scripts matches the empty text).
RECURSIVE FindFrom(_, _, _, _)
FindFrom(pat, t, ok, p) ==
    LET starts == {q \in ok[1] : q >= p}
    IN  IF starts = {} THEN <<>>
        ELSE LET q == SetMin(starts)
                 r == MatchItems(pat, t, ok, 1, q, <<>>)
             IN  <<[s |-> q, ends |-> r]>> \o FindFrom(pat, t, ok, r[Len(r)])

FindAll(pat, t, p) ==
    FindFrom(pat, t, OkTable(pat, t, Len(pat), <<1..(Len(t) + 1)>>), p)

--------------------------------------------------------------------------
(* src/fix_method_signatures.py: the signature rewriter *)

WS == Star("\\s")

\* r'await linearClient\.fetchComments\(\{\s*filter:\s*\{\s*issue:\s*\{\s*id:
\*   \s*\{\s*eq:\s*([^}]+)\s*\}\s*\}\s*\}\s*\}\)'
Fix1Pattern ==
    << Lit(<<"await linearClient.fetchComments(", "{">>), WS,
       Lit(<<"filter:">>), WS, Lit(<<"{">>), WS,
       Lit(<<"issue:">>), WS, Lit(<<"{">>), WS,
       Lit(<<"id:">>), WS, Lit(<<"{">>), WS,
       Lit(<<"eq:">>), WS, PlusG("[^}]", 1), WS,
       Lit(<<"}">>), WS, Lit(<<"}">>), WS, Lit(<<"}">>), WS,
       Lit(<<"}", ")">>) >>

\* r'await linearClient\.fetchComment\(\{\s*id:\s*([^}]+)\s*\}\)'
Fix2Pattern ==
    << Lit(<<"await linearClient.fetchComment(", "{">>), WS,
       Lit(<<"id:">>), WS, PlusG("[^}]", 1), WS,
       Lit(<<"}", ")">>) >>

\* r'await linearClient\.fetchWorkflowStates\(\{\s*filter:\s*\{\s*team:\s*\{
\*   \s*id:\s*\{\s*eq:\s*([^}]+)\s*\}\s*\}\s*\}\s*\}\)'
Fix3Pattern ==
    << Lit(<<"await linearClient.fetchWorkflowStates(", "{">>), WS,
       Lit(<<"filter:">>), WS, Lit(<<"{">>), WS,
       Lit(<<"team:">>), WS, Lit(<<"{">>), WS,
       Lit(<<"id:">>), WS, Lit(<<"{">>), WS,
       Lit(<<"eq:">>), WS, PlusG("[^}]", 1), WS,
       Lit(<<"}">>), WS, Lit(<<"}">>), WS, Lit(<<"}">>), WS,
       Lit(<<"}", ")">>) >>

\* r'\.parent([^I])'
Fix4Pattern == << Lit(<<".parent">>), OneG("[^I]", 1) >>

SigPattern(n) ==
    CASE n = 1 -> Fix1Pattern [] n = 2 -> Fix2Pattern
      [] n = 3 -> Fix3Pattern [] n = 4 -> Fix4Pattern

\* A slip the rename invites: the replacement written '.parentId', without \1.
SigReplacementDropsChar(n, g1) ==
    CASE n = 1 -> <<"await linearClient.fetchComments(">> \o g1 \o <<")">>
      [] n = 2 -> <<"await linearClient.fetchComment(">> \o g1 \o <<")">>
      [] n = 3 -> <<"await linearClient.fetchWorkflowStates(">> \o g1 \o <<")">>
      [] n = 4 -> <<".parent", "Id">>

\* The replacement templates r'await linearClient.fetchComments(\1)',
\* r'await linearClient.fetchComment(\1)',
\* r'await linearClient.fetchWorkflowStates(\1)' and r'.parentId\1'.
SigReplacement(n, g1) ==
    CASE n = 1 -> <<"await linearClient.fetchComments(">> \o g1 \o <<")">>
      [] n = 2 -> <<"await linearClient.fetchComment(">> \o g1 \o <<")">>
      [] n = 3 -> <<"await linearClient.fetchWorkflowStates(">> \o g1 \o <<")">>
      [] n = 4 -> <<".parent", "Id">> \o g1

\* re.sub(SigPattern(n), template n, t): t from position p on, with the
\* matches ms (those of FindAll from p) replaced.
RECURSIVE SigBuild(_, _, _, _)
SigBuild(n, t, p, ms) ==
    IF ms = <<>> THEN SubSeq(t, p, Len(t))
    ELSE LET m == Head(ms)
         IN  SubSeq(t, p, m.s - 1)
               \o SigReplacement(n, Group(SigPattern(n), m, 1, t))
               \o SigBuild(n, t, MatchEnd(m), Tail(ms))

SigSub(n, t) == SigBuild(n, t, 1, FindAll(SigPattern(n), t, 1))

\* The inputs: texts of up to MaxSegs segments.
MaxSegs == 2

Skeleton(n, sp) ==
    CASE n = 1 -> <<"await linearClient.fetchComments(", "{">> \o sp
                    \o <<"filter:">> \o sp \o <<"{">> \o sp \o <<"issue:">> \o sp
                    \o <<"{">> \o sp \o <<"id:">> \o sp \o <<"{">> \o sp
                    \o <<"eq:">> \o sp
      [] n = 2 -> <<"await linearClient.fetchComment(", "{">> \o sp
                    \o <<"id:">> \o sp
      [] n = 3 -> <<"await linearClient.fetchWorkflowStates(", "{">> \o sp
                    \o <<"filter:">> \o sp \o <<"{">> \o sp \o <<"team:">> \o sp
                    \o <<"{">> \o sp \o <<"id:">> \o sp \o <<"{">> \o sp
                    \o <<"eq:">> \o sp
Closing(n, sp) ==
    IF n = 2 THEN sp \o <<"}", ")">>
    ELSE sp \o <<"}">> \o sp \o <<"}">> \o sp \o <<"}">> \o sp \o <<"}", ")">>

\* The old form of call n on argument x, with blanks sp between its parts.
OldCall(n, x, sp) == Skeleton(n, sp) \o x \o Closing(n, sp)
\* The call the script's comments give as NEW for it.
NewCall(n, x) ==
    CASE n = 1 -> <<"await linearClient.fetchComments(">> \o x \o <<")">>
      [] n = 2 -> <<"await linearClient.fetchComment(">> \o x \o <<")">>
      [] n = 3 -> <<"await linearClient.fetchWorkflowStates(">> \o x \o <<")">>

SigSpacings == { <<>>, <<" ">> }
\* An argument and the blanks of the call around it.
SigShapes == { <<<<"issue.id">>, <<>>>>, <<<<"issue.id">>, <<" ">>>>,
               <<<<"issue", ".parent">>, <<>>>> }
Next3(n) == IF n = 3 THEN 1 ELSE n + 1

SigSegments ==
    { OldCall(n, sh[1], sh[2]) : n \in 1..3, sh \in SigShapes }
    \cup { OldCall(n, <<"(">> \o OldCall(Next3(n), <<"y">>, <<" ">>)
                        \o <<")", ".id">>, <<" ">>) : n \in 1..3 }
    \cup { <<".parent">>, <<"Id">>, <<";">> }

SigInputs == { Flatten(ss) : ss \in SeqsUpTo(SigSegments, MaxSegs) }

SigInit ==
    /\ file \in SigInputs
    /\ content = <<>>
    /\ input = <<>>
    /\ pc = "read"
    /\ run = 1
    /\ out = <<>>
    /\ loc = NoLoc

\* with open(file_path, 'r') as f: content = f.read()
SigRead ==
    /\ pc = "read"
    /\ content' = file
    /\ input' = file
    /\ out' = <<"Fixing method signatures...">>
    /\ pc' = "fix1"
    /\ UNCHANGED <<file, run, loc>>

\* content = re.sub(pattern, template, content), four times
SigFix1 ==
    /\ pc = "fix1"
    /\ content' = SigSub(1, content)
    /\ pc' = "fix2"
    /\ UNCHANGED <<file, run, input, out, loc>>

SigFix2 ==
    /\ pc = "fix2"
    /\ content' = SigSub(2, content)
    /\ pc' = "fix3"
    /\ UNCHANGED <<file, run, input, out, loc>>

SigFix3 ==
    /\ pc = "fix3"
    /\ content' = SigSub(3, content)
    /\ pc' = "fix4"
    /\ UNCHANGED <<file, run, input, out, loc>>

SigFix4 ==
    /\ pc = "fix4"
    /\ content' = SigSub(4, content)
    /\ pc' = "write"
    /\ UNCHANGED <<file, run, input, out, loc>>

\* with open(file_path, 'w') as f: f.write(content)
SigWrite ==
    /\ pc = "write"
    /\ file' = content
    /\ out' = Append(out, "Fixed method signatures")
    /\ pc' = "done"
    /\ UNCHANGED <<content, run, input, loc>>

\* The operator starts the script again on the file it left.
SigAgain ==
    /\ pc = "done"
    /\ run < MaxRuns
    /\ run' = run + 1
    /\ pc' = "read"
    /\ out' = <<>>
    /\ UNCHANGED <<file, content, input, loc>>

SigNext == SigRead \/ SigFix1 \/ SigFix2 \/ SigFix3 \/ SigFix4
             \/ SigWrite \/ SigAgain

SpecSig == SigInit /\ [][SigNext]_vars

--------------------------------------------------------------------------
(* The signature rewriter's claims *)

\* The accesses `.parent` of t that are not already `.parentId`.
ParentAccesses(t) ==
    {p \in 1..Len(t) : t[p] = ".parent" /\ (p = Len(t) \/ t[p + 1] # "Id")}

\* t with "Id" put after each of them.
RenameParent(t) ==
    LET R == ParentAccesses(t)
        Before(p) == Cardinality({r \in R : r < p})
    IN  [j \in 1..(Len(t) + Cardinality(R)) |->
            IF \E p \in 1..Len(t) : j = p + Before(p)
            THEN t[CHOOSE p \in 1..Len(t) : j = p + Before(p)]
            ELSE "Id"]

\* C6: one pass of the `.parent` substitution renames every access `.parent`
\* that is not already `.parentId` (consecutive ones and one that ends the
\* text included) and leaves every `.parentId` alone, in the first pass and
\* in the second.
C6_RenamesEveryParent ==
    [][pc = "fix4" => content' = RenameParent(content)]_vars

\* C7: the old form of each of the three calls on an identifier expression X
\* becomes exactly the call on X alone, whatever blanks separated X from the
\* closing brace.
C7_ArgumentAlone ==
    (pc = "done" /\ run = 1) =>
        \A n \in 1..3, sp \in SigSpacings :
            input = OldCall(n, <<"issue.id">>, sp)
                => file = NewCall(n, <<"issue.id">>)

\* The 24 orders of the four substitutions.
SigOrders == {o \in [1..4 -> 1..4] : \A a, b \in 1..4 : a # b => o[a] # o[b]}
ApplyOrder(o, t) == SigSub(o[4], SigSub(o[3], SigSub(o[2], SigSub(o[1], t))))

\* C10 as stated: on every input, every order of the four substitutions gives
\* the text the script's order gives.
C10_AnyOrderSameOutput ==
    (pc = "done" /\ run = 1) =>
        \A o \in SigOrders : ApplyOrder(o, input) = file

\* The places where an old-form call of one of the three operations starts.
CallHeads(t) ==
    {p \in 1..(Len(t) - 1) :
        /\ t[p] \in {"await linearClient.fetchComments(",
                     "await linearClient.fetchComment(",
                     "await linearClient.fetchWorkflowStates("}
        /\ t[p + 1] = "{"}
FirstRBraceAfter(t, p) ==
    LET B == {q \in p..Len(t) : t[q] = "}"}
    IN  IF B = {} THEN Len(t) + 1 ELSE SetMin(B)
\* No old-form call starts inside the argument object of another: between a
\* call's start and the first "}" after it no other call starts.
Unnested(t) ==
    \A p, q \in CallHeads(t) : ~(p < q /\ q < FirstRBraceAfter(t, p))

\* C10, amended: on every input in which no old-form call starts between
\* another old-form call's start and the first "}" after it, every order of
\* the four substitutions gives the text the script's order gives.
C10_UnnestedAnyOrderSameOutput ==
    (pc = "done" /\ run = 1 /\ Unnested(input)) =>
        \A o \in SigOrders : ApplyOrder(o, input) = file

\* Two different call substitutions and the rename all changed an unnested
\* input.
C10_Witness ==
    /\ pc = "done" /\ run = 1 /\ Unnested(input)
    /\ Cardinality({n \in 1..3 : FindAll(SigPattern(n), input, 1) # <<>>}) >= 2
    /\ FindAll(Fix4Pattern, input, 1) # <<>>

--------------------------------------------------------------------------
(* src/fix_last_three.py: the literal-block rewriter *)

\* The texts old1..old3 and new1..new3.  The first token is the rest of the
\* line the text starts on; a token "n|text" is a line break, n tabs and
\* text.  Long string literals are shortened with "..." and written without
\* their backquotes.
Old(k) ==
    CASE k = 1 ->
           << "await linearClient.createAgentActivity({",
              "9|agentSessionId: session.linearAgentActivitySessionId,",
              "9|content: {",
              "10|type: \"response\",",
              "10|body: **Repository Removed from Configuration**...,",
              "9|},",
              "8|});" >>
      [] k = 2 ->
           << "const activityInput = {",
              "4|agentSessionId: linearAgentActivitySessionId,",
              "4|content: {",
              "5|type: \"thought\",",
              "5|body: Entering '${selectedPromptType}' mode ...,",
              "4|},",
              "3|};",
              "0|",
              "3|const result = await linearClient.createAgentActivity(activityInput);",
              "3|if (result.success) {",
              "4|console.log(",
              "5|[EdgeWorker] Posted system prompt selection thought ...,",
              "4|);",
              "3|} else {",
              "4|console.error(",
              "5|[EdgeWorker] Failed to post system prompt selection thought:,",
              "5|result,",
              "4|);",
              "3|}" >>
      [] k = 3 ->
           << "const activityInput = {",
              "4|agentSessionId: linearAgentActivitySessionId,",
              "4|content: {",
              "5|type: \"thought\",",
              "5|body: message,",
              "4|},",
              "3|};",
              "0|",
              "3|const result = await linearClient.createAgentActivity(activityInput);",
              "3|if (result.success) {",
              "4|console.log(",
              "5|[EdgeWorker] Posted instant prompted acknowledgment thought ...,",
              "4|);",
              "3|} else {",
              "4|console.error(",
              "5|[EdgeWorker] Failed to post instant prompted acknowledgment:,",
              "5|result,",
              "4|);",
              "3|}" >>

New(k) ==
    CASE k = 1 ->
           << "await linearClient.createAgentActivity(session.linearAgentActivitySessionId, {",
              "9|type: AgentActivityContentType.Response,",
              "9|body: **Repository Removed from Configuration**...,",
              "8|});" >>
      [] k = 2 ->
           << "await linearClient.createAgentActivity(linearAgentActivitySessionId, {",
              "4|type: AgentActivityContentType.Thought,",
              "4|body: Entering '${selectedPromptType}' mode ...,",
              "3|});",
              "3|console.log(",
              "4|[EdgeWorker] Posted system prompt selection thought ...,",
              "3|);" >>
      [] k = 3 ->
           << "await linearClient.createAgentActivity(linearAgentActivitySessionId, {",
              "4|type: AgentActivityContentType.Thought,",
              "4|body: message,",
              "3|});",
              "3|console.log(",
              "4|[EdgeWorker] Posted instant prompted acknowledgment thought ...,",
              "3|);" >>

\* Where old occurs in t.
Occurrences(old, t) == {p \in 1..Len(t) : OccursAt(old, t, p)}

\* A looser test than `in`: the text's first line alone.
FoundFirstLine(old, t) == \E p \in 1..Len(t) : t[p] = old[1]

\* old in content
Found(old, t) == \E p \in 1..Len(t) : OccursAt(old, t, p)

\* str.replace with count 1: only the leftmost occurrence.
StrReplaceFirst(t, old, new) ==
    IF Occurrences(old, t) = {} THEN t
    ELSE LET q == SetMin(Occurrences(old, t))
         IN  SubSeq(t, 1, q - 1) \o new \o SubSeq(t, q + Len(old), Len(t))

\* content.replace(old, new): every occurrence, leftmost first, none
\* overlapping an earlier one.
RECURSIVE StrReplace(_, _, _)
StrReplace(t, old, new) ==
    IF Occurrences(old, t) = {} THEN t
    ELSE LET q == SetMin(Occurrences(old, t))
         IN  SubSeq(t, 1, q - 1) \o new
               \o StrReplace(SubSeq(t, q + Len(old), Len(t)), old, new)

FixedMsg(k) ==
    CASE k = 1 -> "Fixed #1: Repository removal message"
      [] k = 2 -> "Fixed #2: System prompt selection"
      [] k = 3 -> "Fixed #3: Instant prompted acknowledgment"
NotFoundMsg(k) ==
    CASE k = 1 -> "Could not find pattern #1"
      [] k = 2 -> "Could not find pattern #2"
      [] k = 3 -> "Could not find pattern #3"

\* The inputs: up to MaxLitSegs blocks, each an old text, an old text that
\* drifted by one extra space, a text already rewritten or another statement.
MaxLitSegs == 3

Drifted(k) ==
    [Old(k) EXCEPT ![3] = IF k = 1 THEN "9|content:  {" ELSE "4|content:  {"]

LitSegments ==
    { Old(k) : k \in 1..3 } \cup { Drifted(k) : k \in 1..3 }
    \cup { New(1), <<"3|return;">> }

LitInputs == { Flatten(ss) : ss \in SeqsUpTo(LitSegments, MaxLitSegs) }

LitInit ==
    /\ file \in LitInputs
    /\ content = <<>>
    /\ input = <<>>
    /\ pc = "read"
    /\ run = 1
    /\ out = <<>>
    /\ loc = NoLoc

LitRead ==
    /\ pc = "read"
    /\ content' = file
    /\ input' = file
    /\ pc' = "fix1"
    /\ UNCHANGED <<file, run, out, loc>>

LitFixFound(k) ==
    /\ Found(Old(k), content)
    /\ content' = StrReplace(content, Old(k), New(k))
    /\ out' = Append(out, FixedMsg(k))

LitFixNotFound(k) ==
    /\ ~Found(Old(k), content)
    /\ content' = content
    /\ out' = Append(out, NotFoundMsg(k))

LitFix1 ==
    /\ pc = "fix1"
    /\ (LitFixFound(1) \/ LitFixNotFound(1))
    /\ pc' = "fix2"
    /\ UNCHANGED <<file, run, input, loc>>

LitFix2 ==
    /\ pc = "fix2"
    /\ (LitFixFound(2) \/ LitFixNotFound(2))
    /\ pc' = "fix3"
    /\ UNCHANGED <<file, run, input, loc>>

LitFix3 ==
    /\ pc = "fix3"
    /\ (LitFixFound(3) \/ LitFixNotFound(3))
    /\ pc' = "write"
    /\ UNCHANGED <<file, run, input, loc>>

LitWrite ==
    /\ pc = "write"
    /\ file' = content
    /\ pc' = "done"
    /\ UNCHANGED <<content, run, input, out, loc>>

LitNext == LitRead \/ LitFix1 \/ LitFix2 \/ LitFix3 \/ LitWrite

SpecLit == LitInit /\ [][LitNext]_vars

--------------------------------------------------------------------------
(* The literal-block rewriter's claims *)

FixPc(k) == CASE k = 1 -> "fix1" [] k = 2 -> "fix2" [] k = 3 -> "fix3"

\* t with the occurrences of old that start at the positions P (which do not
\* overlap) replaced by new, written position by position.
ReplacedAt(t, old, new, P) ==
    LET d == Len(old) - Len(new)
        Shift(p) == Cardinality({q \in P : q < p}) * d
        Covered(p) == \E q \in P : q <= p /\ p < q + Len(old)
        InNew(j, q) == j >= q - Shift(q) /\ j < q - Shift(q) + Len(new)
    IN  [j \in 1..(Len(t) - Cardinality(P) * d) |->
            IF \E q \in P : InNew(j, q)
            THEN new[j - ((CHOOSE q \in P : InNew(j, q))
                            - Shift(CHOOSE q \in P : InNew(j, q))) + 1]
            ELSE t[CHOOSE p \in 1..Len(t) : ~Covered(p) /\ p - Shift(p) = j]]

\* C8 as stated: a pair whose old text occurs in the file replaces its first
\* occurrence only; every further occurrence stays.
C8_OnlyFirstReplaced ==
    [][\A k \in 1..3 :
          (pc = FixPc(k) /\ Occurrences(Old(k), content) # {}) =>
              content' = ReplacedAt(content, Old(k), New(k),
                                    {SetMin(Occurrences(Old(k), content))})]_vars

\* C8, amended: a pair whose old text occurs in the file replaces every
\* occurrence of it, and nothing else of the text changes.
C8_EveryOccurrenceReplaced ==
    [][\A k \in 1..3 :
          (pc = FixPc(k) /\ Occurrences(Old(k), content) # {}) =>
              content' = ReplacedAt(content, Old(k), New(k),
                                    Occurrences(Old(k), content))]_vars

\* A run over a file that held an old text twice has ended.
C8_Witness ==
    /\ pc = "done"
    /\ \E k \in 1..3 : /\ Cardinality(Occurrences(Old(k), input)) >= 2
                       /\ Occurrences(Old(k), file) = {}

\* C9: each pair on its own: when the file read does not hold the pair's old
\* text verbatim the pair reports "not found" and leaves the text as it is;
\* when it does, the pair reports its fix and no occurrence is left; the text
\* is written back in either case, and equals the text read when no pair was
\* found.
C9_NotFoundIsNoOp ==
    /\ [][\A k \in 1..3 : pc = FixPc(k) =>
             IF Occurrences(Old(k), input) = {}
             THEN /\ out' = Append(out, NotFoundMsg(k))
                  /\ content' = content
             ELSE /\ out' = Append(out, FixedMsg(k))
                  /\ Occurrences(Old(k), content') = {}
                  /\ Occurrences(New(k), content') # {}]_vars
    /\ [](pc = "done" =>
             /\ file = content
             /\ Len(out) = 3
             /\ (\A k \in 1..3 : Occurrences(Old(k), input) = {}) => file = input)

\* A run has ended in which a pair whose old text had drifted by one space
\* was not found and another pair was found and replaced.
C9_Witness ==
    /\ pc = "done"
    /\ \E k, j \in 1..3 :
          /\ Occurrences(Drifted(k), input) # {}
          /\ out[k] = NotFoundMsg(k)
          /\ out[j] = FixedMsg(j)
          /\ file # input
          /\ Occurrences(Drifted(k), file) # {}

--------------------------------------------------------------------------
(* src/fix_create_activity.py: the pattern rewriter *)

S1 == Plus("\\s")

\* The fields both old forms share:
\* r'\s+agentSessionId: ([^,]+),\s+content: \{\s+type: "([^"]+)",\s+
\*   body: ([^}]+)\},\s+'
FieldItems ==
    << S1, Lit(<<"agentSessionId: ">>), PlusG("[^,]", 2), Lit(<<",">>),
       S1, Lit(<<"content: ", "{">>),
       S1, Lit(<<"type: ", "\"">>), PlusG("[^\"]", 3), Lit(<<"\"", ",">>),
       S1, Lit(<<"body: ">>), PlusG("[^}]", 4), Lit(<<"}", ",">>), S1 >>

\* r'if \(result\.success\) \{\s+(console\.log\([^)]+\);\s+)\} else \{
\*   [^}]+result[^}]+\}'
BranchItems ==
    << Lit(<<"if (", "result", ".success) ", "{">>), S1,
       LitG(<<"console.log(">>, 5), PlusG("[^)]", 5), LitG(<<")", ";">>, 5),
       PlusG("\\s", 5),
       Lit(<<"}", " else ", "{">>), Plus("[^}]"), Lit(<<"result">>),
       Plus("[^}]"), Lit(<<"}">>) >>

\* pattern1 = r'(\t+)const result = await linearClient\.createAgentActivity
\*   \(\{' fields r'\}\);\s+' branch
pattern1 ==
    << PlusG("\\t", 1),
       Lit(<<"const ", "result", " = ",
             "await linearClient.createAgentActivity(", "{">>) >>
    \o FieldItems \o << Lit(<<"}", ")", ";">>), S1 >> \o BranchItems

\* pattern2 = r'(\t+)await linearClient\.createAgentActivity\(\{' fields
\*   r'\}\);'
pattern2 ==
    << PlusG("\\t", 1),
       Lit(<<"await linearClient.createAgentActivity(", "{">>) >>
    \o FieldItems \o << Lit(<<"}", ")", ";">>) >>

\* pattern3 = r'(\t+)const activityInput = \{' fields r'\};\s+const result =
\*   await linearClient\.createAgentActivity\(activityInput\);\s+' branch
pattern3 ==
    << PlusG("\\t", 1), Lit(<<"const ", "activityInput", " = ", "{">>) >>
    \o FieldItems
    \o << Lit(<<"}", ";">>), S1,
          Lit(<<"const ", "result", " = ",
                "await linearClient.createAgentActivity(",
                "activityInput", ")", ";">>), S1 >>
    \o BranchItems

PatPattern(n) ==
    CASE n = 1 -> pattern1 [] n = 2 -> pattern2 [] n = 3 -> pattern3

\* str.strip(): s without its leading and trailing blanks.
Strip(s) ==
    LET keep == {p \in 1..Len(s) : s[p] \notin Blanks}
    IN  IF keep = {} THEN <<>> ELSE SubSeq(s, SetMin(keep), SetMax(keep))

\* if body.endswith(','): body = body[:-1]
DropComma(s) ==
    IF s # <<>> /\ s[Len(s)] = "," THEN SubSeq(s, 1, Len(s) - 1) ELSE s

\* str.capitalize(): the first character in upper case, every other one in
\* lower case.  The tables give the tokens that have a cased character.
LowerCased ==
    << <<"A", "a">>, <<"T", "t">>, <<"H", "h">>,
       <<"await linearClient.createAgentActivity(",
         "await linearclient.createagentactivity(">>,
       <<"AgentActivityContentType.", "agentactivitycontenttype.">>,
       <<"agentSessionId: ", "agentsessionid: ">>,
       <<"sessionId", "sessionid">>,
       <<"activityInput", "activityinput">>,
       <<"Posted", "posted">>, <<"Failed", "failed">>,
       <<"Failed: ", "failed: ">>, <<"String(", "string(">>,
       <<"Hi ", "hi ">> >>
FirstUpperRestLower ==
    << <<"a", "A">>, <<"t", "T">>, <<"h", "H">>,
       <<"hought", "Hought">>, <<"gent", "Gent">>, <<"ction", "Ction">>,
       <<"text", "Text">>, <<"sessionId", "Sessionid">>,
       <<"await linearClient.createAgentActivity(",
         "Await linearclient.createagentactivity(">> >>
Lookup(table, tok, default) ==
    IF \E j \in 1..Len(table) : table[j][1] = tok
    THEN table[CHOOSE j \in 1..Len(table) : table[j][1] = tok][2]
    ELSE default
Lower(tok) == Lookup(LowerCased, tok, tok)
CapitalizeToken(tok) == Lookup(FirstUpperRestLower, tok, Lower(tok))
Capitalize(s) ==
    [j \in 1..Len(s) |-> IF j = 1 THEN CapitalizeToken(s[1]) ELSE Lower(s[j])]

\* The head of the two-argument call and its type line, as the three
\* replacement functions write them.
NewHead(indent, session_id, type_str) ==
    indent \o <<"await linearClient.createAgentActivity(">> \o session_id
      \o <<",", " ", "{", "\n">>
      \o indent \o <<"\t", "type: ", "AgentActivityContentType.">>
      \o Capitalize(type_str) \o <<",", "\n">>

fix_inline_with_result(g) ==
    NewHead(g[1], g[2], g[3])
      \o g[1] \o <<"\t", "body: ">> \o DropComma(Strip(g[4])) \o <<",", "\n">>
      \o g[1] \o <<"}", ")", ";", "\n", "\n">>
      \o g[1] \o g[5]

fix_await_no_result(g) ==
    NewHead(g[1], g[2], g[3])
      \o g[1] \o <<"\t", "body: ">> \o g[4] \o <<"\n">>
      \o g[1] \o <<"}", ")", ";">>

fix_activity_input(g) ==
    NewHead(g[1], g[2], g[3])
      \o g[1] \o <<"\t", "body: ">> \o DropComma(Strip(g[4])) \o <<",", "\n">>
      \o g[1] \o <<"}", ")", ";", "\n">>
      \o g[1] \o g[5]

\* The groups of match m of pattern n (pattern2 has no group 5).
Groups(n, m, t) ==
    [g \in 1..5 |-> IF ItemsOf(PatPattern(n), g) = {} THEN <<>>
                    ELSE Group(PatPattern(n), m, g, t)]

PatReplacement(n, g) ==
    CASE n = 1 -> fix_inline_with_result(g)
      [] n = 2 -> fix_await_no_result(g)
      [] n = 3 -> fix_activity_input(g)

\* re.sub(pattern n, function n, t, flags=re.DOTALL) from position p on.
RECURSIVE PatBuild(_, _, _, _)
PatBuild(n, t, p, ms) ==
    IF ms = <<>> THEN SubSeq(t, p, Len(t))
    ELSE LET m == Head(ms)
         IN  SubSeq(t, p, m.s - 1)
               \o PatReplacement(n, Groups(n, m, t))
               \o PatBuild(n, t, MatchEnd(m), Tail(ms))

PatMatches(n, t) == FindAll(PatPattern(n), t, 1)
PatSub(n, t) == PatBuild(n, t, 1, PatMatches(n, t))

\* content.count('createAgentActivity'), content.count('result.success')
CountCalls(t) ==
    Cardinality({p \in 1..Len(t) :
                   t[p] = "await linearClient.createAgentActivity("})
CountChecks(t) ==
    Cardinality({p \in 1..(Len(t) - 1) :
                   t[p] = "result" /\ t[p + 1] = ".success) "})

\* The inputs: texts of up to MaxPatSegs segments.  A segment is a
\* statement on lines of its own; an old-form statement is written as the
\* code formatter of EdgeWorker.ts lays it out.  (Backquotes of template
\* literals are left out of the tokens: no pattern tests them.)
MaxPatSegs == 2

Ind == <<"\t", "\t">>
NL(extra) == <<"\n">> \o Ind \o extra

Session == <<"sessionId">>
PlainType == <<"t", "hought">>
MixedType == <<"a", "gent", "A", "ction">>
PlainBody == <<"text", ",">>
BareBody == <<"text">>
BraceBody == <<"Hi ", "$", "{", "name", "}", ",">>
PlainLog == <<"console.log(", "\"", "Posted", "\"", ")", ";">>
CallLog == <<"console.log(", "\"", "Posted", "\"", ",", " ",
             "String(", "id", ")", ")", ";">>
PlainFail == <<"console.error(", "\"", "Failed", "\"", ",", " ",
               "result", ")", ";">>
TemplateFail == <<"console.error(", "Failed: ", "$", "{", "result",
                  ".error", "}", ")", ";">>

Variant(T, B, log, fail) == [T |-> T, B |-> B, log |-> log, fail |-> fail]
Plain == Variant(PlainType, PlainBody, PlainLog, PlainFail)
\* Variants that differ from Plain in one part.
Variants ==
    { Plain,
      Variant(MixedType, PlainBody, PlainLog, PlainFail),
      Variant(PlainType, BareBody, PlainLog, PlainFail),
      Variant(PlainType, BraceBody, PlainLog, PlainFail),
      Variant(PlainType, PlainBody, CallLog, PlainFail),
      Variant(PlainType, PlainBody, PlainLog, TemplateFail) }

\* { agentSessionId: S, content: { type: "T", body: B }, } up to the last }
OldFields(T, B) ==
    NL(<<"\t">>) \o <<"agentSessionId: ">> \o Session \o <<",">>
      \o NL(<<"\t">>) \o <<"content: ", "{">>
      \o NL(<<"\t", "\t">>) \o <<"type: ", "\"">> \o T \o <<"\"", ",">>
      \o NL(<<"\t", "\t">>) \o <<"body: ">> \o B
      \o NL(<<"\t">>) \o <<"}", ",">>
      \o NL(<<>>)

\* if (result.success) { log } else { fail }
OldBranch(v) ==
    <<"if (", "result", ".success) ", "{">>
      \o NL(<<"\t">>) \o v.log
      \o NL(<<>>) \o <<"}", " else ", "{">>
      \o NL(<<"\t">>) \o v.fail
      \o NL(<<>>) \o <<"}">>

\* The inline form with its branch, the bare await form, the
\* activityInput form with its branch.
OldForm(n, v) ==
    CASE n = 1 ->
           Ind \o <<"const ", "result", " = ",
                    "await linearClient.createAgentActivity(", "{">>
             \o OldFields(v.T, v.B) \o <<"}", ")", ";">>
             \o NL(<<>>) \o OldBranch(v)
      [] n = 2 ->
           Ind \o <<"await linearClient.createAgentActivity(", "{">>
             \o OldFields(v.T, v.B) \o <<"}", ")", ";">>
      [] n = 3 ->
           Ind \o <<"const ", "activityInput", " = ", "{">>
             \o OldFields(v.T, v.B) \o <<"}", ";">>
             \o <<"\n">> \o NL(<<>>)
             \o <<"const ", "result", " = ",
                  "await linearClient.createAgentActivity(",
                  "activityInput", ")", ";">>
             \o NL(<<>>) \o OldBranch(v)

Return == Ind \o <<"return", ";">>
\* A bare await form whose type string is itself a bare await form.
Quoted == OldForm(2, Variant(OldForm(2, Variant(PlainType, BareBody,
                                                  <<>>, <<>>)),
                             BareBody, <<>>, <<>>))

PatSegments ==
    { OldForm(n, v) \o <<"\n">> : n \in {1, 3}, v \in Variants }
    \cup { OldForm(2, v) \o <<"\n">> :
             v \in {w \in Variants : w.log = PlainLog /\ w.fail = PlainFail} }
    \cup { Return \o <<"\n">>, Quoted \o <<"\n">> }

PatInputs == { Flatten(ss) : ss \in SeqsUpTo(PatSegments, MaxPatSegs) }

PatInit ==
    /\ file \in PatInputs
    /\ content = <<>>
    /\ input = <<>>
    /\ pc = "read"
    /\ run = 1
    /\ out = <<>>
    /\ loc = [fixes_applied |-> 0]

Printed(what, n) == [what |-> what, n |-> n]

\* with open(file_path, 'r') as f: content = f.read(); the two counts
PatRead ==
    /\ pc = "read"
    /\ content' = file
    /\ input' = file
    /\ out' = << Printed("Before: createAgentActivity calls", CountCalls(file)),
                 Printed("Before: result.success checks", CountChecks(file)) >>
    /\ loc' = [fixes_applied |-> 0]
    /\ pc' = "pattern1"
    /\ UNCHANGED <<file, run>>

\* content = re.sub(pattern1, fix_inline_with_result, content, ...)
PatFix1 ==
    /\ pc = "pattern1"
    /\ content' = PatSub(1, content)
    /\ loc' = [fixes_applied |->
                 loc.fixes_applied + Len(PatMatches(1, content))]
    /\ pc' = "pattern2"
    /\ UNCHANGED <<file, run, input, out>>

\* content = re.sub(pattern2, fix_await_no_result, content, ...)
PatFix2 ==
    /\ pc = "pattern2"
    /\ content' = PatSub(2, content)
    /\ loc' = [fixes_applied |->
                 loc.fixes_applied + Len(PatMatches(2, content))]
    /\ pc' = "pattern3"
    /\ UNCHANGED <<file, run, input, out>>

\* content = re.sub(pattern3, fix_activity_input, content, ...)
PatFix3 ==
    /\ pc = "pattern3"
    /\ content' = PatSub(3, content)
    /\ loc' = [fixes_applied |->
                 loc.fixes_applied + Len(PatMatches(3, content))]
    /\ pc' = "write"
    /\ UNCHANGED <<file, run, input, out>>

\* with open(file_path, 'w') as f: f.write(content); the three prints
PatWrite ==
    /\ pc = "write"
    /\ file' = content
    /\ out' = out \o
         << Printed("Applied fixes", loc.fixes_applied),
            Printed("After: createAgentActivity calls", CountCalls(content)),
            Printed("After: result.success checks", CountChecks(content)) >>
    /\ pc' = "done"
    /\ UNCHANGED <<content, run, input, loc>>

\* The operator starts the script again on the file it left.
PatAgain ==
    /\ pc = "done"
    /\ run < MaxRuns
    /\ run' = run + 1
    /\ pc' = "read"
    /\ out' = <<>>
    /\ UNCHANGED <<file, content, input, loc>>

PatNext == PatRead \/ PatFix1 \/ PatFix2 \/ PatFix3 \/ PatWrite \/ PatAgain

SpecPat == PatInit /\ [][PatNext]_vars

--------------------------------------------------------------------------
(* The pattern rewriter's claims *)

\* T with its first letter in upper case and the rest as it was.
FirstUpper(T) ==
    [j \in 1..Len(T) |-> IF j = 1 THEN CapitalizeToken(T[1]) ELSE T[j]]

\* await linearClient.createAgentActivity(S, { type:
\* AgentActivityContentType.<T>, body: B, }); on four lines
TwoArgumentCall(T, B) ==
    Ind \o <<"await linearClient.createAgentActivity(">> \o Session
      \o <<",", " ", "{">>
      \o NL(<<"\t">>) \o <<"type: ", "AgentActivityContentType.">>
      \o FirstUpper(T) \o <<",">>
      \o NL(<<"\t">>) \o <<"body: ">> \o DropComma(B) \o <<",">>
      \o NL(<<>>) \o <<"}", ")", ";">>

\* What the claims give as the rewritten inline form and activityInput
\* form: the call, the success branch's log statement and the blanks that
\* followed it.
NewInline(v) ==
    TwoArgumentCall(v.T, v.B) \o <<"\n", "\n">> \o Ind \o v.log \o NL(<<>>)
NewFromInput(v) ==
    TwoArgumentCall(v.T, v.B) \o <<"\n">> \o Ind \o v.log \o NL(<<>>)

\* A statement before or after the old form, or neither.
Around == { << <<>>, <<>> >>,
            << Return \o <<"\n">>, <<>> >>,
            << <<>>, Return \o <<"\n">> >> }

\* Variants with a lower-case type and a body without braces.
SimpleVariants ==
    {v \in Variants : v.T = PlainType /\ v.B \in {PlainBody, BareBody}}

\* C1: an inline form followed by its success/failure branch is replaced by
\* exactly the two-argument call and the success branch's log statement:
\* the binding, the test and every character of the failure branch are
\* gone, and the text around the form is unchanged.
C1_InlineFormRewritten ==
    (pc = "done" /\ run = 1) =>
        \A v \in SimpleVariants, a \in Around :
            input = a[1] \o OldForm(1, v) \o <<"\n">> \o a[2]
              => file = a[1] \o NewInline(v) \o <<"\n">> \o a[2]

\* C2: a second run of the rewriter on the file the first run wrote changes
\* nothing.
C2_SecondRunChangesNothing ==
    (pc = "done" /\ run = 2) => file = input

\* An old-form head is left in t.
OldHeadIn(t) ==
    \E p \in 1..(Len(t) - 1) :
        \/ t[p] = "await linearClient.createAgentActivity(" /\ t[p + 1] = "{"
        \/ t[p] = "activityInput"
\* A body line of t gives the expression B.
BodyIn(t, B) ==
    \E p \in 1..Len(t) :
        /\ t[p] = "body: "
        /\ p + Len(B) <= Len(t)
        /\ SubSeq(t, p + 1, p + Len(B)) = B

\* C3: an old form whose body has braces of its own is rewritten, and the
\* body of the two-argument call is the whole body expression.
C3_BodyWithBracesIntact ==
    (pc = "done" /\ run = 1) =>
        \A n \in 1..3, v \in Variants :
            (v.T = PlainType /\ v.log = PlainLog /\ v.fail = PlainFail
               /\ input = OldForm(n, v) \o <<"\n">>)
              => ~OldHeadIn(file) /\ BodyIn(file, DropComma(v.B))

\* C4: the constant written after AgentActivityContentType. is the type
\* string with its first letter in upper case and every other character as
\* it was.
C4_TypeKeepsInnerCapitals ==
    (pc = "done" /\ run = 1) =>
        \A n \in 1..3, v \in Variants :
            (v.B = PlainBody /\ v.log = PlainLog /\ v.fail = PlainFail
               /\ input = OldForm(n, v) \o <<"\n">>)
              => \E p \in 1..Len(file) :
                    /\ file[p] = "AgentActivityContentType."
                    /\ p + Len(v.T) <= Len(file)
                    /\ SubSeq(file, p + 1, p + Len(v.T)) = FirstUpper(v.T)

\* C5: an activityInput form followed by the call on it and the branch is
\* replaced by the same two-argument call (the body with one trailing
\* comma) and the log statement; no activityInput, no result is left.
C5_ActivityInputFormRewritten ==
    (pc = "done" /\ run = 1) =>
        \A v \in SimpleVariants, a \in Around :
            input = a[1] \o OldForm(3, v) \o <<"\n">> \o a[2]
              => /\ file = a[1] \o NewFromInput(v) \o <<"\n">> \o a[2]
                 /\ \A p \in 1..Len(file) :
                        file[p] \notin {"activityInput", "result"}

--------------------------------------------------------------------------
(* src/packages/edge-worker/src/fix_all_create_activity.py: the             *)
(* line-scanning rewriter.  `lines` is a sequence of lines, a line a        *)
(* sequence of tokens that ends with "\n"; the cursor i counts from 0 as    *)
(* in the script.                                                           *)

LineAt(ls, i) == ls[i + 1]

\* f.readlines(): the text cut after each "\n".
ReadLines(t) ==
    LET ends == {p \in 1..Len(t) : t[p] = "\n"} \cup
                  (IF t # <<>> /\ t[Len(t)] # "\n" THEN {Len(t)} ELSE {})
        From(e) == SetMax({q \in ends : q < e} \cup {0}) + 1
        Nth(k) == CHOOSE e \in ends : Cardinality({q \in ends : q <= e}) = k
    IN  [k \in 1..Cardinality(ends) |-> SubSeq(t, From(Nth(k)), Nth(k))]

\* 'w' in line, for a text w that is a token string, and for a text that
\* lies inside one token.
Has(w, line) == \E p \in 1..Len(line) : OccursAt(w, line, p)
HasOneOf(toks, line) == \E p \in 1..Len(line) : line[p] \in toks

\* re.search(pat, line) and its group 1
Search(pat, line) == FindAll(pat, line, 1) # <<>>
SearchGroup(pat, line) == Group(pat, FindAll(pat, line, 1)[1], 1, line)

\* r'const result = await linearClient\.createAgentActivity\(\{'
Pattern1Head ==
    << Lit(<<"const ", "result", " = ",
             "await linearClient.createAgentActivity(", "{">>) >>
\* r'const activityInput = \{'
Pattern2Head == << Lit(<<"const ", "activityInput", " = ", "{">>) >>
\* r'await linearClient\.createAgentActivity\(\{'
Pattern3Head ==
    << Lit(<<"await linearClient.createAgentActivity(", "{">>) >>
\* r'await linearClient\.createAgentActivity\([^{]+,\s*\{'
TwoParameterForm ==
    << Lit(<<"await linearClient.createAgentActivity(">>), Plus("[^{]"),
       Lit(<<",">>), Star("\\s"), Lit(<<"{">>) >>

\* What an f-string writes for None.
None == <<"None">>

\* re.search(r'agentSessionId:\s*([^,\s]+)', line)
extract_session_id(line) ==
    LET pat == << Lit(<<"agentSessionId: ">>), Star("\\s"),
                  PlusG("[^,\\s]", 1) >>
    IN  IF Search(pat, line) THEN SearchGroup(pat, line) ELSE None

\* re.search(r'type:\s*"([^"]+)"', line), capitalized
extract_type(line) ==
    LET pat == << Lit(<<"type: ">>), Star("\\s"), Lit(<<"\"">>),
                  PlusG("[^\"]", 1), Lit(<<"\"">>) >>
    IN  IF Search(pat, line) THEN Capitalize(SearchGroup(pat, line))
        ELSE None

\* The tokens with 'body:' in them, and what follows the first one of the
\* line up to the end of the line.
BodyKeys == {"body: ", "body:"}
AfterBodyKey(line) ==
    LET p == SetMin({q \in 1..Len(line) : line[q] \in BodyKeys})
        e == IF line[Len(line)] = "\n" THEN Len(line) - 1 ELSE Len(line)
    IN  [key |-> line[p], rest |-> SubSeq(line, p + 1, e)]

\* re.search(r'body:\s*(.+)', line) finds nothing (and extract_body_start
\* returns None) when no character but the newline follows 'body:'.
BodyStartIsNone(line) ==
    AfterBodyKey(line).key = "body:" /\ AfterBodyKey(line).rest = <<>>
\* match.group(1).strip() otherwise
extract_body_start(line) == Strip(AfterBodyKey(line).rest)

\* len(line) - len(line.lstrip())
Indent(line) ==
    LET solid == {p \in 1..Len(line) : line[p] \notin Blanks}
    IN  IF solid = {} THEN Len(line) ELSE SetMin(solid) - 1

\* line.strip().startswith('}')
StartsWithRBrace(line) ==
    Strip(line) # <<>> /\ Strip(line)[1] \in HasRBrace

\* re.search(r'^\s*\};?\s*$', line)
ClosesObject(line) == Strip(line) \in { <<"}">>, <<"}", ";">> }

\* ' '.join(body_lines) if body_lines else 'body'
BodyStr(body_lines) ==
    IF body_lines = <<>> THEN <<"body">>
    ELSE Flatten([j \in 1..Len(body_lines) |->
                    IF j = 1 THEN body_lines[1]
                    ELSE <<" ">> \o body_lines[j]])

\* The four lines of the two-argument call; indent_str is
\* '\t' * (indent // 4).
CallLines(l) ==
    LET indent_str == [j \in 1..(l.indent \div 4) |-> "\t"]
    IN  << indent_str \o <<"await linearClient.createAgentActivity(">>
             \o l.session_id \o <<",", " ", "{", "\n">>,
           indent_str \o <<"\t", "type: ", "AgentActivityContentType.">>
             \o l.type_val \o <<",", "\n">>,
           indent_str \o <<"\t", "body: ">> \o BodyStr(l.body_lines)
             \o <<",", "\n">>,
           indent_str \o <<"}", ")", ";", "\n">> >>

\* if success_log: new_lines.append(success_log)
LogLines(l) == IF l.success_log = <<>> THEN <<>> ELSE <<l.success_log>>

\* new_lines of pattern n
NewLines(n, l) ==
    CASE n = 1 -> CallLines(l) \o << <<"\n">> >> \o LogLines(l)
      [] n = 2 -> CallLines(l) \o LogLines(l)
      [] n = 3 -> CallLines(l)

\* del lines[start_line:i], then new_lines inserted at start_line
Spliced(ls, start_line, i, new_lines) ==
    SubSeq(ls, 1, start_line) \o new_lines \o SubSeq(ls, i + 1, Len(ls))

\* A slip: the cursor left on the first inserted line.
CursorAtReplacement(start_line, new_lines) == start_line
\* i = start_line + len(new_lines)
CursorAfterSplice(start_line, new_lines) == start_line + Len(new_lines)

\* The script's variables besides `lines`.  bound: success_log has been
\* assigned (it is first assigned inside a pattern).
ScanLoc ==
    [i |-> 0, start_line |-> 0, session_id |-> None, type_val |-> None,
     body_lines |-> <<>>, body_started |-> FALSE, indent |-> 0,
     if_start |-> 0, brace_count |-> 0, else_found |-> FALSE,
     success_log |-> <<>>, bound |-> FALSE]

HasSessionKey(line) == HasOneOf({"agentSessionId: "}, line)
HasTypeKey(line) == HasOneOf({"type: "}, line)
HasBodyKey(line) == HasOneOf(BodyKeys, line)
HasLog(line) == HasOneOf({"console.log("}, line)
HasElse(line) == HasOneOf({" else "}, line)
HasIfSuccess(line) == Has(<<"if (", "result", ".success) ">>, line)
HasCallOnInput(line) ==
    Has(<<"const ", "result", " = ", "await linearClient.createAgentActivity(",
          "activityInput", ")">>, line)

\* Which pattern the line at the cursor starts.
IsHead1(line) == Search(Pattern1Head, line)
IsHead2(line) == ~IsHead1(line) /\ Search(Pattern2Head, line)
IsHead3(line) ==
    /\ ~IsHead1(line) /\ ~Search(Pattern2Head, line)
    /\ Search(Pattern3Head, line)
    /\ ~Has(<<"const ", "result">>, line)

\* What a pattern sets when it starts at the cursor.
Started(l, line) ==
    [l EXCEPT !.start_line = l.i, !.session_id = None, !.type_val = None,
              !.body_lines = <<>>, !.body_started = FALSE,
              !.indent = Indent(line), !.i = l.i + 1]

\* One line of the field loop of patterns 1 and 3: the if/elif chain.
ReadField(l, line) ==
    IF HasSessionKey(line)
    THEN [l EXCEPT !.session_id = extract_session_id(line)]
    ELSE IF HasTypeKey(line)
    THEN [l EXCEPT !.type_val = extract_type(line)]
    ELSE IF HasBodyKey(line)
    THEN [l EXCEPT !.body_lines = Append(@, DropComma(extract_body_start(line))),
                   !.body_started = TRUE]
    ELSE IF l.body_started /\ ~StartsWithRBrace(line)
    THEN IF DropComma(Strip(line)) # <<>>
         THEN [l EXCEPT !.body_lines = Append(@, DropComma(Strip(line)))]
         ELSE l
    ELSE l

\* The line reaches the last elif ('});' in lines[i]) and ends the loop.
EndsCall(l, line) ==
    /\ ~HasSessionKey(line) /\ ~HasTypeKey(line) /\ ~HasBodyKey(line)
    /\ ~(l.body_started /\ ~StartsWithRBrace(line))
    /\ Has(<<"}", ")", ";">>, line)

\* The same chain in pattern 2, whose last branch differs.
ReadField2(l, line) ==
    IF HasSessionKey(line)
    THEN [l EXCEPT !.session_id = extract_session_id(line)]
    ELSE IF HasTypeKey(line)
    THEN [l EXCEPT !.type_val = extract_type(line)]
    ELSE IF HasBodyKey(line)
    THEN [l EXCEPT !.body_lines = Append(@, DropComma(extract_body_start(line))),
                   !.body_started = TRUE]
    ELSE IF l.body_started /\ Strip(line) # <<>> /\ ~StartsWithRBrace(line)
    THEN [l EXCEPT !.body_lines = Append(@, DropComma(Strip(line)))]
    ELSE l

\* body_start.endswith(',') on a body_start that is None
RaisesOnBody(line) ==
    /\ ~HasSessionKey(line) /\ ~HasTypeKey(line) /\ HasBodyKey(line)
    /\ BodyStartIsNone(line)

\* The inputs: texts of up to MaxScanSegs segments, each a statement on
\* lines of its own.
MaxScanSegs == 2

TemplateLog == <<"console.log(", "Posted ", "$", "{", "id", "}", ")", ";">>
InlineHead ==
    Ind \o <<"const ", "result", " = ",
             "await linearClient.createAgentActivity(", "{">>
\* The inline form with no branch after it.
InlineAlone ==
    InlineHead \o OldFields(PlainType, PlainBody) \o <<"}", ")", ";">>
\* Bodies that start on the line after `body:` and that take two lines.
NextLineBody == NL(<<"\t", "\t", "\t">>) \o <<"text", ",">>
TwoLineBody == <<"text", " ", "+">> \o NL(<<"\t", "\t", "\t">>)
                 \o <<"more", ",">>
AwaitNextLineBody ==
    Ind \o <<"await linearClient.createAgentActivity(", "{">>
      \o NL(<<"\t">>) \o <<"agentSessionId: ">> \o Session \o <<",">>
      \o NL(<<"\t">>) \o <<"content: ", "{">>
      \o NL(<<"\t", "\t">>) \o <<"type: ", "\"">> \o PlainType \o <<"\"", ",">>
      \o NL(<<"\t", "\t">>) \o <<"body:">> \o NextLineBody
      \o NL(<<"\t">>) \o <<"}", ",">>
      \o NL(<<>>) \o <<"}", ")", ";">>
\* A remark that names both forms, and an empty call indented by blanks.
Remark ==
    <<"// ", "await linearClient.createAgentActivity(", "id", ",", " ", "{",
      "}", ")", " replaces ", "await linearClient.createAgentActivity(", "{",
      "}", ")">>
EmptyCall ==
    <<" ", " ", " ", " ", "await linearClient.createAgentActivity(", "{",
      "\n", " ", " ", " ", " ", "}", ")", ";">>

ScanSegments ==
    { OldForm(n, Plain) \o <<"\n">> : n \in 1..3 }
    \cup { OldForm(n, Variant(PlainType, PlainBody, TemplateLog, PlainFail))
             \o <<"\n">> : n \in {1, 3} }
    \cup { OldForm(2, Variant(PlainType, TwoLineBody, <<>>, <<>>))
             \o <<"\n">>,
           InlineAlone \o <<"\n">>, AwaitNextLineBody \o <<"\n">>,
           Return \o <<"\n">>, Remark \o <<"\n">>, EmptyCall \o <<"\n">> }

ScanInputs ==
    { ReadLines(Flatten(ss)) : ss \in SeqsUpTo(ScanSegments, MaxScanSegs) }

ScanInit ==
    /\ file \in ScanInputs
    /\ content = <<>>
    /\ input = <<>>
    /\ pc = "read"
    /\ run = 1
    /\ out = <<>>
    /\ loc = ScanLoc

\* with open('EdgeWorker.ts', 'r') as f: lines = f.readlines(); i = 0
ScanRead ==
    /\ pc = "read"
    /\ content' = file
    /\ input' = file
    /\ loc' = ScanLoc
    /\ pc' = "seek"
    /\ UNCHANGED <<file, run, out>>

\* while i < len(lines): false
ScanEnd ==
    /\ pc = "seek"
    /\ loc.i >= Len(content)
    /\ pc' = "write"
    /\ UNCHANGED <<file, content, run, input, out, loc>>

\* Pattern 1 starts at the cursor.
ScanHead1 ==
    /\ pc = "seek"
    /\ loc.i < Len(content)
    /\ IsHead1(LineAt(content, loc.i))
    /\ loc' = Started(loc, LineAt(content, loc.i))
    /\ pc' = "fields1"
    /\ UNCHANGED <<file, content, run, input, out>>

\* Pattern 2 starts at the cursor.
ScanHead2 ==
    /\ pc = "seek"
    /\ loc.i < Len(content)
    /\ IsHead2(LineAt(content, loc.i))
    /\ loc' = Started(loc, LineAt(content, loc.i))
    /\ pc' = "fields2"
    /\ UNCHANGED <<file, content, run, input, out>>

\* Pattern 3 starts at the cursor.
ScanHead3 ==
    /\ pc = "seek"
    /\ loc.i < Len(content)
    /\ IsHead3(LineAt(content, loc.i))
    /\ ~Search(TwoParameterForm, LineAt(content, loc.i))
    /\ loc' = Started(loc, LineAt(content, loc.i))
    /\ pc' = "fields3"
    /\ UNCHANGED <<file, content, run, input, out>>

\* Already in two-parameter form? Skip it
ScanSkip ==
    /\ pc = "seek"
    /\ loc.i < Len(content)
    /\ IsHead3(LineAt(content, loc.i))
    /\ Search(TwoParameterForm, LineAt(content, loc.i))
    /\ loc' = [loc EXCEPT !.start_line = loc.i, !.session_id = None,
                          !.type_val = None, !.body_lines = <<>>,
                          !.indent = Indent(LineAt(content, loc.i)),
                          !.i = loc.i + 1]
    /\ UNCHANGED <<file, content, pc, run, input, out>>

\* No pattern starts at the cursor: i += 1
ScanAdvance ==
    /\ pc = "seek"
    /\ loc.i < Len(content)
    /\ ~IsHead1(LineAt(content, loc.i))
    /\ ~IsHead2(LineAt(content, loc.i))
    /\ ~IsHead3(LineAt(content, loc.i))
    /\ loc' = [loc EXCEPT !.i = loc.i + 1]
    /\ UNCHANGED <<file, content, pc, run, input, out>>

\* One turn of the field loop of pattern 1 or 3 (at `here`; `after` is
\* what follows the loop).
FieldsTurn(here, after) ==
    /\ IF loc.i >= Len(content)
       THEN /\ loc' = loc
            /\ pc' = after
       ELSE /\ ~RaisesOnBody(LineAt(content, loc.i))
            /\ loc' = [ReadField(loc, LineAt(content, loc.i))
                         EXCEPT !.i = loc.i + 1]
            /\ pc' = IF EndsCall(loc, LineAt(content, loc.i))
                     THEN after ELSE here
    /\ UNCHANGED <<file, content, run, input, out>>

ScanFields1 ==
    /\ pc = "fields1"
    /\ FieldsTurn("fields1", "if1")

ScanFields3 ==
    /\ pc = "fields3"
    /\ FieldsTurn("fields3", "splice3")

\* One turn of pattern 2's loop: while i < len(lines) and not
\* re.search(r'^\s*\};?\s*$', lines[i])
ScanFields2 ==
    /\ pc = "fields2"
    /\ loc.i < Len(content)
    /\ ~ClosesObject(LineAt(content, loc.i))
    /\ ~RaisesOnBody(LineAt(content, loc.i))
    /\ loc' = [ReadField2(loc, LineAt(content, loc.i)) EXCEPT !.i = loc.i + 1]
    /\ UNCHANGED <<file, content, pc, run, input, out>>

\* extract_body_start returned None: body_start.endswith raises, the
\* script stops and the file is not written.
ScanRaiseOnBody ==
    /\ pc \in {"fields1", "fields2", "fields3"}
    /\ loc.i < Len(content)
    /\ pc = "fields2" => ~ClosesObject(LineAt(content, loc.i))
    /\ RaisesOnBody(LineAt(content, loc.i))
    /\ out' = Append(out, "AttributeError")
    /\ pc' = "crashed"
    /\ UNCHANGED <<file, content, run, input, loc>>

\* Pattern 1 after the call: the line at the cursor has the test of
\* result.success, or not.
ScanIf1 ==
    /\ pc = "if1"
    /\ IF loc.i < Len(content) /\ HasIfSuccess(LineAt(content, loc.i))
       THEN /\ loc' = [loc EXCEPT !.if_start = loc.i, !.brace_count = 0,
                                  !.else_found = FALSE, !.success_log = <<>>,
                                  !.bound = TRUE, !.i = loc.i + 1]
            /\ pc' = "branch1"
       ELSE /\ loc' = loc
            /\ pc' = "splice1"
    /\ UNCHANGED <<file, content, run, input, out>>

\* The first line with console.log between the test and line i, if any.
FirstLog(ls, if_start, i, otherwise) ==
    LET J == {j \in (if_start + 1)..(i - 1) : HasLog(LineAt(ls, j))}
    IN  IF J = {} THEN otherwise ELSE LineAt(ls, SetMin(J))

Opens(line) == IF HasOneOf(HasLBrace, line) THEN 1 ELSE 0

\* One turn of pattern 1's loop over the branch.
ScanBranch1 ==
    /\ pc = "branch1"
    /\ IF loc.i >= Len(content)
       THEN loc' = loc /\ pc' = "splice1"
       ELSE LET line == LineAt(content, loc.i)
                up == loc.brace_count + Opens(line)
            IN  IF ~HasOneOf(HasRBrace, line)
                THEN /\ loc' = [loc EXCEPT !.brace_count = up, !.i = loc.i + 1]
                     /\ pc' = "branch1"
                ELSE IF up - 1 = 0 /\ ~loc.else_found
                THEN LET log == FirstLog(content, loc.if_start, loc.i,
                                         loc.success_log)
                     IN  IF loc.i + 1 < Len(content)
                              /\ HasElse(LineAt(content, loc.i + 1))
                         THEN /\ loc' = [loc EXCEPT !.success_log = log,
                                           !.else_found = TRUE,
                                           !.brace_count = 0,
                                           !.i = loc.i + 2]
                              /\ pc' = "branch1"
                         ELSE /\ loc' = [loc EXCEPT !.success_log = log,
                                           !.brace_count = 0,
                                           !.i = loc.i + 1]
                              /\ pc' = "splice1"
                ELSE IF up - 1 = 0 /\ loc.else_found
                THEN /\ loc' = [loc EXCEPT !.brace_count = 0, !.i = loc.i + 1]
                     /\ pc' = "splice1"
                ELSE /\ loc' = [loc EXCEPT !.brace_count = up - 1,
                                           !.i = loc.i + 1]
                     /\ pc' = "branch1"
    /\ UNCHANGED <<file, content, run, input, out>>

\* Pattern 2 after the object: the closing line, a blank line and the call
\* on activityInput are skipped; then the test of result.success, or not.
ScanFields2End ==
    /\ pc = "fields2"
    /\ loc.i >= Len(content) \/ ClosesObject(LineAt(content, loc.i))
    /\ LET n  == Len(content)
           i1 == IF loc.i < n THEN loc.i + 1 ELSE loc.i
           i2 == IF i1 < n /\ Strip(LineAt(content, i1)) = <<>>
                 THEN i1 + 1 ELSE i1
           i3 == IF i2 < n /\ HasCallOnInput(LineAt(content, i2))
                 THEN i2 + 1 ELSE i2
       IN  IF i3 < n /\ HasIfSuccess(LineAt(content, i3))
           THEN /\ loc' = [loc EXCEPT !.success_log = <<>>, !.bound = TRUE,
                                      !.if_start = i3, !.brace_count = 0,
                                      !.i = i3 + 1]
                /\ pc' = "branch2"
           ELSE /\ loc' = [loc EXCEPT !.success_log = <<>>, !.bound = TRUE,
                                      !.i = i3]
                /\ pc' = "splice2"
    /\ UNCHANGED <<file, content, run, input, out>>

\* One turn of pattern 2's loop over the success block.
ScanBranch2 ==
    /\ pc = "branch2"
    /\ IF loc.i >= Len(content)
       THEN loc' = loc /\ pc' = "splice2"
       ELSE LET line == LineAt(content, loc.i)
                up == loc.brace_count + Opens(line)
                log == IF HasLog(line) THEN line ELSE loc.success_log
            IN  IF HasOneOf(HasRBrace, line) /\ up - 1 = 0
                THEN IF loc.i + 1 < Len(content)
                          /\ HasElse(LineAt(content, loc.i + 1))
                     THEN /\ loc' = [loc EXCEPT !.success_log = log,
                                       !.brace_count = 0, !.i = loc.i + 2]
                          /\ pc' = "else2"
                     ELSE /\ loc' = [loc EXCEPT !.success_log = log,
                                       !.brace_count = 0, !.i = loc.i + 1]
                          /\ pc' = "splice2"
                ELSE /\ loc' = [loc EXCEPT !.success_log = log,
                                  !.brace_count =
                                     IF HasOneOf(HasRBrace, line)
                                     THEN up - 1 ELSE up,
                                  !.i = loc.i + 1]
                     /\ pc' = "branch2"
    /\ UNCHANGED <<file, content, run, input, out>>

\* One turn of pattern 2's loop over the else block.
ScanElse2 ==
    /\ pc = "else2"
    /\ IF loc.i >= Len(content)
       THEN loc' = loc /\ pc' = "splice2"
       ELSE LET line == LineAt(content, loc.i)
                up == loc.brace_count + Opens(line)
            IN  IF HasOneOf(HasRBrace, line)
                THEN /\ loc' = [loc EXCEPT !.brace_count = up - 1,
                                           !.i = loc.i + 1]
                     /\ pc' = IF up - 1 = 0 THEN "splice2" ELSE "else2"
                ELSE /\ loc' = [loc EXCEPT !.brace_count = up, !.i = loc.i + 1]
                     /\ pc' = "else2"
    /\ UNCHANGED <<file, content, run, input, out>>

\* `if success_log:` in pattern 1 when success_log was never assigned:
\* NameError, the script stops and the file is not written.
ScanRaiseOnLog ==
    /\ pc = "splice1"
    /\ ~loc.bound
    /\ out' = Append(out, "NameError")
    /\ pc' = "crashed"
    /\ UNCHANGED <<file, content, run, input, loc>>

\* The lines start_line..i-1 are replaced by new_lines and the cursor is
\* put after them.
Splice(n) ==
    /\ content' = Spliced(content, loc.start_line, loc.i, NewLines(n, loc))
    /\ loc' = [loc EXCEPT
                 !.i = CursorAfterSplice(loc.start_line, NewLines(n, loc))]
    /\ pc' = "seek"
    /\ UNCHANGED <<file, run, input, out>>

ScanSplice1 ==
    /\ pc = "splice1"
    /\ loc.bound
    /\ Splice(1)

ScanSplice2 ==
    /\ pc = "splice2"
    /\ Splice(2)

ScanSplice3 ==
    /\ pc = "splice3"
    /\ Splice(3)

\* with open('EdgeWorker.ts', 'w') as f: f.writelines(lines); the print
ScanWrite ==
    /\ pc = "write"
    /\ file' = content
    /\ out' = Append(out, "Fixed all createAgentActivity calls")
    /\ pc' = "done"
    /\ UNCHANGED <<content, run, input, loc>>

\* The operator starts the script again on the file it left.
ScanAgain ==
    /\ pc = "done"
    /\ run < MaxRuns
    /\ run' = run + 1
    /\ pc' = "read"
    /\ out' = <<>>
    /\ UNCHANGED <<file, content, input, loc>>

ScanNext ==
    \/ ScanRead \/ ScanEnd \/ ScanHead1 \/ ScanHead2 \/ ScanHead3
    \/ ScanSkip \/ ScanAdvance
    \/ ScanFields1 \/ ScanFields2 \/ ScanFields3 \/ ScanRaiseOnBody
    \/ ScanIf1 \/ ScanBranch1 \/ ScanFields2End \/ ScanBranch2 \/ ScanElse2
    \/ ScanRaiseOnLog \/ ScanSplice1 \/ ScanSplice2 \/ ScanSplice3
    \/ ScanWrite \/ ScanAgain

SpecScan == ScanInit /\ [][ScanNext]_vars

\* ---- Claims about the line-scanning rewriter ----

\* The braces opened minus the braces closed in lines a..j of ls.
BraceNet(ls, a, j) ==
    LET At(b) == {<<l, k>> \in (a..j) \X (1..SetMax({Len(ls[l + 1]) : l \in a..j})) :
                    k <= Len(ls[l + 1]) /\ ls[l + 1][k] = b}
    IN  Cardinality(At("{")) - Cardinality(At("}"))

\* The lines at whose end the statement that starts on line if_start is
\* closed; the first of them ends it.
ClosedAt(ls, if_start) ==
    {j \in if_start..(Len(ls) - 1) : BraceNet(ls, if_start, j) = 0}
StatementEnd(ls, if_start) == SetMin(ClosedAt(ls, if_start))

\* The idiom being spliced is followed by a test of result.success with an
\* else block.
FollowedByIfElse(ls, l) ==
    /\ l.if_start > l.start_line
    /\ ClosedAt(ls, l.if_start) # {}
    /\ \E j \in (l.if_start)..StatementEnd(ls, l.if_start) :
          HasElse(LineAt(ls, j))

\* C11: when the inline form or the activityInput form is followed by
\* if (result.success) { ... } else { ... }, the splice removes the lines up
\* to and including the closing brace of the else block: the file becomes
\* the lines before the idiom, the reconstructed call (with the kept log),
\* and the lines after the else block's closing brace, unchanged and in
\* order.
C11_BranchRemovedToElseEnd ==
    [][ \A n \in {1, 2} :
          ( /\ pc = (IF n = 1 THEN "splice1" ELSE "splice2")
            /\ pc' = "seek"
            /\ FollowedByIfElse(content, loc) )
          => content' = SubSeq(content, 1, loc.start_line)
                          \o NewLines(n, loc)
                          \o SubSeq(content,
                                    StatementEnd(content, loc.if_start) + 2,
                                    Len(content)) ]_vars

\* C12: no content of the file makes the line-scanning rewriter raise: a run
\* never stops on an exception, whatever the layout of a recognised call
\* (a body: line whose expression starts on the next line, a call with no
\* agentSessionId: or type: line), so every run goes on to write the file
\* back.
C12_NoRunRaises ==
    /\ pc # "crashed"
    /\ \A k \in 1..Len(out) : out[k] \notin {"AttributeError", "NameError"}

\* The scanner is inside an idiom (between a head and its splice).
InIdiom == pc \in {"fields1", "fields2", "fields3", "if1", "branch1",
                   "branch2", "else2", "splice1", "splice2", "splice3"}

\* The number of lines after the cursor.
Remaining == Len(content) - loc.i

\* The cursor stays within the lines, and inside an idiom it is past the
\* idiom's first line.
CursorInRange ==
    /\ pc \in {"seek", "write"} \/ InIdiom => loc.i \in 0..Len(content)
    /\ InIdiom => loc.start_line < loc.i

\* One step of the scanner, seen from the outer loop: an iteration starts
\* in the seeking state with the cursor on start_line, leaves the lines
\* alone until its splice, and ends in the seeking state with fewer lines
\* after the cursor than it started with, the cursor on the first line
\* after the inserted replacement and the lines after it those that were
\* after the consumed range.
CursorProgress ==
    /\ (pc = "seek" /\ pc' = "seek") =>
          /\ content' = content
          /\ Remaining' < Remaining
    /\ (pc = "seek" /\ InIdiom') =>
          /\ content' = content
          /\ loc'.start_line = loc.i
    /\ (InIdiom /\ InIdiom') =>
          /\ content' = content
          /\ loc'.start_line = loc.start_line
          /\ loc'.i >= loc.i
    /\ (InIdiom /\ pc' = "seek") =>
          /\ Len(content') - loc'.i < Len(content) - loc.start_line
          /\ loc'.i \in (loc.start_line + 1)..Len(content')
          /\ SubSeq(content', 1, loc.start_line)
               = SubSeq(content, 1, loc.start_line)
          /\ \E n \in 1..3 :
               SubSeq(content', loc.start_line + 1, loc'.i) = NewLines(n, loc)
          /\ SubSeq(content', loc'.i + 1, Len(content'))
               = SubSeq(content, loc.i + 1, Len(content))

\* How far the scanner is inside one iteration of the outer loop.
Rank ==
    CASE pc \in {"fields1", "fields2", "fields3"} -> 6
      [] pc = "if1" -> 5
      [] pc \in {"branch1", "branch2"} -> 4
      [] pc = "else2" -> 3
      [] pc \in {"splice1", "splice2", "splice3"} -> 2
      [] pc = "seek" -> 1
      [] OTHER -> 0

\* A natural number that every step of the scan loop makes smaller: the
\* lines after the cursor first, the position inside the iteration second.
ScanVariant == 8 * Remaining + Rank

\* Every step taken while the loop runs (up to the write, or to the
\* exception that stops the run) makes the variant smaller and leaves it
\* a natural number: the loop cannot run for ever.
VariantDecreases ==
    (pc = "seek" \/ InIdiom) =>
        /\ pc' = "seek" \/ InIdiom' \/ pc' \in {"write", "crashed"}
        /\ ScanVariant' \in 0..(ScanVariant - 1)

\* C13: the scan loop terminates on every input (it reaches the write, or
\* the run stops on an exception), since every step of it decreases a
\* natural number; at every iteration of the outer loop the number of
\* lines after the cursor strictly decreases, also across a splice that
\* lengthens the file: after a splice the cursor is on the first line
\* after the inserted replacement and the scanner is seeking again.
C13_ScanTerminatesWithProgress ==
    /\ []CursorInRange
    /\ [][CursorProgress /\ VariantDecreases]_vars

\* C13: a splice has lengthened the file, the scanner is seeking again and
\* lines remain after the inserted replacement.
C13_Witness ==
    /\ pc = "seek"
    /\ Len(content) > Len(input)
    /\ loc.i = loc.start_line + 4
    /\ Remaining > 0
====
